---- MODULE Spec2Model ----
(***************************************************************************)
(* The access layer of rust/nix-expr/src/eval_state.rs over the Nix C API: *)
(* the process-wide lazy INIT cell, per-thread registration with the       *)
(* collector, and the EvalState operations with their error channel.       *)
(*                                                                         *)
(* The engine and the collector are the environment.  A boundary call that *)
(* is handed the error channel has an outcome "ok" or "err" chosen by the  *)
(* environment; what the layer does with that outcome is the code.         *)
(* Spec, SpecMake, SpecLife, SpecEval, SpecValue and SpecClone take an     *)
(* engine that honours its contract (a query on a live value answers,      *)
(* forcing a forced value is a no-op); SpecFault and SpecFree let every    *)
(* call that is handed the channel report a failure.                       *)
(*                                                                         *)
(* EvalState and Value hold raw pointers, so they stay on the thread that  *)
(* made them.  Every EvalState is an object of its own, with its own error *)
(* channel and handle, and EvalState::new makes one more whenever it is    *)
(* called: SpecMake, SpecLife, SpecEval and SpecFree have up to MaxStates  *)
(* of them alive at a time.  SpecFault, SpecValue and SpecClone follow the *)
(* operations on one EvalState from the moment EvalState::new has returned *)
(* it.  Dropping an EvalState frees its handle and leaves the values it    *)
(* evaluated in the engine heap; the code accepts them as operands of any  *)
(* EvalState, and what the engine then answers is outside its contract.    *)
(***************************************************************************)
EXTENDS Integers, Sequences, FiniteSets, TLC

NumThreads == 2     \* native threads calling into the layer
MaxDepth == 2       \* nesting depth of gc_registering_current_thread
MaxValues == 2      \* value slots of the engine heap
MaxStates == 2      \* EvalStates alive or being made at a time

Threads == 1..NumThreads
NoThread == "nobody"
Slots == 1..MaxValues
NoSlot == "null"        \* the null handle
EvalStates == 1..MaxStates      \* places for the EvalStates of the process

Outcomes == {"ok", "err"}

VARIABLES
    INIT,        \* the lazy_static cell: "uninit" | "running" | "ok" | "err"
    initCtx,     \* error channel of the Context local to the INIT initializer
    effects,     \* [allow, libinit]: times each initialization side effect ran
    pc,          \* per thread: "idle" | "deref" | "libinit" | "check" | "dead"
    op,          \* per thread: the operation waiting on INIT ("none" when idle)
    registered,  \* per thread: what GC_thread_is_registered answers
    frames,      \* per thread: open gc_registering_current_thread calls,
                 \*   each the flag "this call registered the thread"
    es,          \* the EvalStates made so far, each one
                 \*   [st, owner, frees, failed]: st "none" | "alive" |
                 \*   "freed", owner the thread that holds it, frees the
                 \*   number of nix_state_free calls made on its handle,
                 \*   failed whether an operation on it has returned an
                 \*   error that check_err reported
    ctx,         \* per EvalState: EvalState.context, its own error
                 \*   channel: "none" | "err"
    slots,       \* engine heap: slot -> [st, tag, str] and its history
    log,         \* boundary calls of the last operation, in order
    result       \* what the last operation gave its caller

vars == <<INIT, initCtx, effects, pc, op, registered, frames, es, ctx, slots,
          log, result>>

----------------------------------------------------------------------------
(* Boundary calls and the error channel                                    *)

\* One boundary call as the log records it.
Ev(name, o) == [call |-> name, out |-> o]

\* The calls that are handed the error channel (context.ptr()).
ChannelCalls == {"nix_libexpr_init", "nix_state_create", "nix_alloc_value",
                 "nix_expr_eval_from_string", "nix_value_force",
                 "nix_get_type", "nix_get_string"}

\* What a boundary call leaves in the channel it was handed: the engine
\* resets the channel on entry and writes the failure, if any.
Written(o) == IF o = "err" THEN "err" ELSE "none"

\* Context::check_err: Err iff the channel holds a failure; the failure is
\* consumed by the check.
check_err(chan) ==
    [status |-> IF chan = "err" THEN "Err" ELSE "Ok", chan |-> "none"]

\* What an operation gave its caller: status "Ok" | "Err" | "Panic" and the
\* value; arg is the operand (a slot, the expression and its label, or the
\* nesting depth of the call) and
\* pre what held of it when the operation began.
\* es is the EvalState the operation was called on or, for new and drop,
\* the one it made or freed ("none" when there is none).
NoResult == [t |-> NoThread, op |-> "none", status |-> "none", val |-> "none",
             arg |-> "none", pre |-> "none", es |-> "none"]
ResOf(t, o, s, v, a, p) ==
    [t |-> t, op |-> o, status |-> s, val |-> v, arg |-> a, pre |-> p,
     es |-> "none"]
ResOn(e, r) == [r EXCEPT !.es = e]
Res(t, o, s, v) == ResOf(t, o, s, v, "none", "none")

----------------------------------------------------------------------------
(* INIT and init()                                                         *)

\* lazy_static / Once: the initializer is entered by the first thread to
\* dereference the cell; later threads wait while it runs.
OnceMayEnter_racy(cell) == cell \in {"uninit", "running"}
OnceMayEnter(cell) == cell = "uninit"
OnceResolved(cell) == cell \in {"ok", "err"}

\* init(): reproduce the cached outcome of INIT.
init(cell) ==
    IF cell = "ok" THEN [status |-> "Ok", val |-> "unit"]
    ELSE [status |-> "Err", val |-> "nix_libstore_init error"]

\* The EvalStates that exist, and those thread t holds.
Alive == {e \in EvalStates : es[e].st = "alive"}
Live(t) == {e \in Alive : es[e].owner = t}

\* Room in the model for one more EvalState: those that exist and those
\* being made are fewer than MaxStates.
MayCreate ==
    Cardinality(Alive) + Cardinality({u \in Threads : op[u] = "new"})
        < MaxStates

\* A thread calls init() directly, or through EvalState::new or
\* gc_registering_current_thread.
CallInit(t, o) ==
    /\ pc[t] = "idle"
    /\ o = "gcreg" => Len(frames[t]) < MaxDepth
    /\ o = "new" => MayCreate
    /\ pc' = [pc EXCEPT ![t] = "deref"]
    /\ op' = [op EXCEPT ![t] = o]
    /\ UNCHANGED <<INIT, initCtx, effects, registered, frames, es, ctx, slots,
                   log, result>>

\* First dereference: enter the initializer; GC_allow_register_threads().
INIT_enter(t) ==
    /\ pc[t] = "deref"
    /\ OnceMayEnter(INIT)
    /\ INIT' = "running"
    /\ effects' = [effects EXCEPT !.allow = @ + 1]
    /\ initCtx' = "none"
    /\ pc' = [pc EXCEPT ![t] = "libinit"]
    /\ UNCHANGED <<op, registered, frames, es, ctx, slots, log, result>>

\* nix_libexpr_init(context.ptr())
INIT_libexpr_init(t) ==
    /\ pc[t] = "libinit"
    /\ \E o \in Outcomes : initCtx' = Written(o)
    /\ effects' = [effects EXCEPT !.libinit = @ + 1]
    /\ pc' = [pc EXCEPT ![t] = "check"]
    /\ UNCHANGED <<INIT, op, registered, frames, es, ctx, slots, log, result>>

\* context.check_err()?; Ok(())  -- the cell is resolved for the process.
INIT_check(t) ==
    /\ pc[t] = "check"
    /\ INIT' = IF check_err(initCtx).status = "Err" THEN "err" ELSE "ok"
    /\ initCtx' = check_err(initCtx).chan
    /\ pc' = [pc EXCEPT ![t] = "deref"]
    /\ UNCHANGED <<effects, op, registered, frames, es, ctx, slots, log, result>>

\* pub fn init() returns.
init_return(t) ==
    /\ pc[t] = "deref" /\ op[t] = "init"
    /\ OnceResolved(INIT)
    /\ result' = Res(t, "init", init(INIT).status, init(INIT).val)
    /\ log' = <<>>
    /\ pc' = [pc EXCEPT ![t] = "idle"]
    /\ op' = [op EXCEPT ![t] = "none"]
    /\ UNCHANGED <<INIT, initCtx, effects, registered, frames, es, ctx, slots>>

----------------------------------------------------------------------------
(* Registration of the calling thread with the collector                   *)

Rets == {"r1", "r2"}    \* values a closure may return

\* gc_register_my_thread(): reg is GC_thread_is_registered(), sb the outcome
\* of GC_get_stack_base.
gc_register_my_thread(reg, sb) ==
    IF reg
    THEN [status |-> "Ok", registered |-> TRUE,
          log |-> <<Ev("GC_thread_is_registered", "ok")>>]
    ELSE IF sb = "err"
    THEN [status |-> "Err", registered |-> FALSE,
          log |-> <<Ev("GC_thread_is_registered", "ok"),
                    Ev("GC_get_stack_base", "err")>>]
    ELSE [status |-> "Ok", registered |-> TRUE,
          log |-> <<Ev("GC_thread_is_registered", "ok"),
                    Ev("GC_get_stack_base", "ok"),
                    Ev("GC_register_my_thread", "ok")>>]

\* gc_registering_current_thread up to the invocation of f:
\* "Err" (init failed), "Panic" (the unwrap of a failed registration) or
\* "Run": f is invoked, own telling whether this call registered the thread.
gc_registering_enter(cell, reg, sb) ==
    IF init(cell).status = "Err"
    THEN [status |-> "Err", registered |-> reg, own |-> FALSE, log |-> <<>>]
    ELSE IF reg
    THEN [status |-> "Run", registered |-> reg, own |-> FALSE,
          log |-> <<Ev("GC_thread_is_registered", "ok"), Ev("f", "call")>>]
    ELSE LET g == gc_register_my_thread(reg, sb) IN
         IF g.status = "Err"
         THEN [status |-> "Panic", registered |-> g.registered, own |-> FALSE,
               log |-> <<Ev("GC_thread_is_registered", "ok")>> \o g.log]
         ELSE [status |-> "Run", registered |-> g.registered, own |-> TRUE,
               log |-> <<Ev("GC_thread_is_registered", "ok")>> \o g.log
                         \o <<Ev("f", "call")>>]

\* Variants with a plausible slip: unregistering whoever registered, and
\* never unregistering.
gc_registering_exit_always(own, reg, r) ==
    [registered |-> FALSE, val |-> r,
     log |-> <<Ev("f", r), Ev("GC_unregister_my_thread", "ok")>>]
gc_registering_exit_leak(own, reg, r) ==
    [registered |-> reg, val |-> r, log |-> <<Ev("f", r)>>]

\* gc_registering_current_thread after f has returned r.
gc_registering_exit(own, reg, r) ==
    IF own
    THEN [registered |-> FALSE, val |-> r,
          log |-> <<Ev("f", r), Ev("GC_unregister_my_thread", "ok")>>]
    ELSE [registered |-> reg, val |-> r, log |-> <<Ev("f", r)>>]

\* A frame of an open call: own as above, entry the registration on entry.
Frame(own, entry) == [own |-> own, entry |-> entry]

\* impl Drop for EvalState: nix_state_free(self.raw_ptr()).
\* Variant that frees the handle a second time.
DropEvalState_twice(e) ==
    [st |-> "freed", owner |-> NoThread, frees |-> e.frees + 2,
     failed |-> FALSE]
DropEvalState(e) ==
    [st |-> "freed", owner |-> NoThread, frees |-> e.frees + 1,
     failed |-> FALSE]

\* A slot of the engine heap: st "free" | "thunk" | "forced", the engine's
\* kind tag and, for a string, its bytes.  forces and seen record, for the
\* slot's current value, how many force() calls have succeeded on it (2 for
\* two or more) and the kind value_type reported after the first of them,
\* both through the Value that eval_from_string returned.  clone tells
\* whether that Value has a clone, taken while the slot was a thunk
\* ("early") or after ("late"), and "none" otherwise.  home holds the
\* EvalState that evaluated the value, for as long as it is alive: the
\* engine answers for a value only through its home.
FreeSlot == [st |-> "free", tag |-> "NIX_TYPE_NULL", str |-> <<>>,
             forces |-> 0, seen |-> "none", clone |-> "none", home |-> {}]

\* The heap once the EvalStates E are freed: nix_state_free leaves the
\* values where they are, and those that E evaluated have no home left.
Orphaned(sl, E) == [s \in Slots |-> [sl[s] EXCEPT !.home = @ \ E]]

\* A panic unwinds the thread: every open call is left without running the
\* rest of its body, and the EvalStates the thread holds are dropped; sl
\* is the heap the panicking operation left.
Unwind(t, sl) ==
    /\ pc' = [pc EXCEPT ![t] = "dead"]
    /\ op' = [op EXCEPT ![t] = "none"]
    /\ frames' = [frames EXCEPT ![t] = <<>>]
    /\ es' = [e \in EvalStates |->
                IF e \in Live(t) THEN DropEvalState(es[e]) ELSE es[e]]
    /\ slots' = Orphaned(sl, Live(t))

gc_registering_current_thread_enter(t) ==
    /\ pc[t] = "deref" /\ op[t] = "gcreg"
    /\ OnceResolved(INIT)
    /\ \E sb \in Outcomes :
         LET g == gc_registering_enter(INIT, registered[t], sb)
             d == Len(frames[t])
         IN  /\ registered' = [registered EXCEPT ![t] = g.registered]
             /\ log' = g.log
             /\ CASE g.status = "Run" ->
                      /\ frames' = [frames EXCEPT
                                      ![t] = Append(@, Frame(g.own, registered[t]))]
                      /\ result' = ResOf(t, "gcreg_enter", "Run", "none",
                                         d, registered[t])
                      /\ pc' = [pc EXCEPT ![t] = "idle"]
                      /\ op' = [op EXCEPT ![t] = "none"]
                      /\ UNCHANGED <<es, slots>>
                  [] g.status = "Err" ->
                      /\ result' = ResOf(t, "gcreg", "Err", init(INIT).val,
                                         d, registered[t])
                      /\ pc' = [pc EXCEPT ![t] = "idle"]
                      /\ op' = [op EXCEPT ![t] = "none"]
                      /\ UNCHANGED <<frames, es, slots>>
                  [] OTHER ->
                      /\ result' = ResOf(t, "gcreg", "Panic",
                                         "GC_get_stack_base failed",
                                         d, registered[t])
                      /\ Unwind(t, slots)
    /\ UNCHANGED <<INIT, initCtx, effects, ctx>>

\* The closure f returns r; the open call finishes and returns Ok(r).
gc_registering_current_thread_exit(t) ==
    /\ pc[t] = "idle"
    /\ frames[t] # <<>>
    /\ \E r \in Rets :
         LET top == frames[t][Len(frames[t])]
             x == gc_registering_exit(top.own, registered[t], r)
         IN  /\ registered' = [registered EXCEPT ![t] = x.registered]
             /\ log' = x.log
             /\ frames' = [frames EXCEPT ![t] = SubSeq(@, 1, Len(@) - 1)]
             /\ result' = ResOf(t, "gcreg", "Ok", x.val,
                                Len(frames[t]) - 1, top.entry)
    /\ UNCHANGED <<INIT, initCtx, effects, pc, op, es, ctx, slots>>

\* The closure f panics instead of returning.
closure_panic(t) ==
    /\ pc[t] = "idle"
    /\ frames[t] # <<>>
    /\ result' = ResOf(t, "gcreg", "Panic", "panic in f", Len(frames[t]) - 1,
                       frames[t][1].entry)
    /\ log' = <<Ev("f", "panic")>>
    /\ Unwind(t, slots)
    /\ UNCHANGED <<INIT, initCtx, effects, registered, ctx>>

\* pub fn gc_register_my_thread(), called directly.
gc_register_my_thread_call(t) ==
    /\ pc[t] = "idle"
    /\ \E sb \in Outcomes :
         LET g == gc_register_my_thread(registered[t], sb) IN
         /\ registered' = [registered EXCEPT ![t] = g.registered]
         /\ log' = g.log
         /\ result' = ResOf(t, "gc_register_my_thread", g.status,
                            IF g.status = "Err" THEN "GC_get_stack_base failed"
                            ELSE "unit", "none", registered[t])
    /\ UNCHANGED <<INIT, initCtx, effects, pc, op, frames, es, ctx, slots>>

----------------------------------------------------------------------------
(* EvalState: construction and destruction                                 *)

\* Variant that does not consult init().
EvalState_new_noinit(cell, o) ==
    IF o = "err"
    THEN [status |-> "Err", val |-> "nix_state_create returned a null pointer",
          ctx |-> Written(o), log |-> <<Ev("nix_state_create", o)>>]
    ELSE [status |-> "Ok", val |-> "EvalState", ctx |-> Written(o),
          log |-> <<Ev("nix_state_create", o)>>]

\* EvalState::new after Context::new(): init()?, nix_state_create, the null
\* test.  o is the outcome of nix_state_create (null iff it failed).
EvalState_new(cell, o) ==
    IF init(cell).status = "Err"
    THEN [status |-> "Err", val |-> init(cell).val, ctx |-> "none",
          log |-> <<>>]
    ELSE IF o = "err"
    THEN [status |-> "Err", val |-> "nix_state_create returned a null pointer",
          ctx |-> Written(o), log |-> <<Ev("nix_state_create", o)>>]
    ELSE [status |-> "Ok", val |-> "EvalState", ctx |-> Written(o),
          log |-> <<Ev("nix_state_create", o)>>]

\* The new EvalState is its own object, with its own Context and handle;
\* the ones that exist are left as they are.
EvalState_new_call(t) ==
    /\ pc[t] = "deref" /\ op[t] = "new"
    /\ OnceResolved(INIT)
    /\ \E o \in Outcomes :
         LET n == EvalState_new(INIT, o)
             e == CHOOSE x \in EvalStates \ Alive :
                    \A y \in EvalStates \ Alive : x <= y
         IN
         /\ log' = n.log
         /\ IF n.status = "Ok"
            THEN /\ es' = [es EXCEPT ![e] = [st |-> "alive", owner |-> t,
                                             frees |-> 0, failed |-> FALSE]]
                 /\ ctx' = [ctx EXCEPT ![e] = n.ctx]
                 /\ result' = ResOn(e, Res(t, "new", n.status, n.val))
            ELSE /\ result' = Res(t, "new", n.status, n.val)
                 /\ UNCHANGED <<es, ctx>>
    /\ pc' = [pc EXCEPT ![t] = "idle"]
    /\ op' = [op EXCEPT ![t] = "none"]
    /\ UNCHANGED <<INIT, initCtx, effects, registered, frames, slots>>

\* The owner drops one of its EvalStates: nix_state_free on its handle and
\* nothing else.  The values it evaluated stay in the engine heap as they
\* are, noted as having no home left.
EvalState_drop(t) ==
    /\ pc[t] = "idle"
    /\ \E e \in Live(t) :
         /\ es' = [es EXCEPT ![e] = DropEvalState(@)]
         /\ slots' = Orphaned(slots, {e})
         /\ result' = ResOn(e, Res(t, "drop", "Ok", "unit"))
    /\ log' = <<Ev("nix_state_free", "ok")>>
    /\ UNCHANGED <<INIT, initCtx, effects, pc, op, registered, frames, ctx>>

----------------------------------------------------------------------------
(* The engine heap and the boundary calls on values                        *)

Strings == {<<104, 105>>, <<195>>}      \* "hi"; a truncated two-byte character
Exprs == {<<49>>, <<49, 0>>}            \* "1"; an expression holding a NUL
Paths == {<<60, 62>>, <<0>>}            \* "<>"; a label holding a NUL

\* The kind tags, other than string, of the values the engine makes here:
\* those of 1, true, /foo, { } and [ ].
Kinds == {"NIX_TYPE_INT", "NIX_TYPE_BOOL", "NIX_TYPE_PATH", "NIX_TYPE_ATTRS",
          "NIX_TYPE_LIST"}

Thunk == [st |-> "thunk", tag |-> "NIX_TYPE_THUNK", str |-> <<>>,
          forces |-> 0, seen |-> "none", clone |-> "none", home |-> {}]
ForcedVals ==
    {[st |-> "forced", tag |-> k, str |-> <<>>,
      forces |-> 0, seen |-> "none", clone |-> "none", home |-> {}] :
       k \in Kinds}
    \cup {[st |-> "forced", tag |-> "NIX_TYPE_STRING", str |-> b,
           forces |-> 0, seen |-> "none", clone |-> "none", home |-> {}] :
             b \in Strings}
\* The forced values whose kind tag is in K.
ValuesOf(K) == {c \in ForcedVals : c.tag \in K}
\* What evaluation by the EvalState e can write into a slot, when the
\* expressions it is given have their values in V: a thunk or the value.
EvaluatedIn(e, V) == {[c EXCEPT !.home = {e}] : c \in {Thunk} \cup V}
Evaluated(e) == EvaluatedIn(e, ForcedVals)

\* The state an operation threads through its boundary calls.
Mach(sl, ch, lg) == [slots |-> sl, ctx |-> ch, log |-> lg]

\* A boundary call handed self.context.ptr(), with outcome o.
Boundary(m, name, o) ==
    [m EXCEPT !.ctx = Written(o), !.log = Append(@, Ev(name, o))]

\* self.context.check_err()
Checked(m) ==
    [m |-> [m EXCEPT !.ctx = check_err(m.ctx).chan,
                     !.log = Append(@, Ev("check_err", check_err(m.ctx).status))],
     status |-> check_err(m.ctx).status]

\* Outcomes the engine can give.  An engine that honours its contract
\* answers the queries on a live value and treats forcing a forced value as
\* a no-op; with fault injection (F) every call handed the channel may
\* report a failure.
QueryOutcomes(F) == IF F THEN Outcomes ELSE {"ok"}
ForceOutcomes(slot, F) == IF slot.st = "forced" /\ ~F THEN {"ok"} ELSE Outcomes
\* The contract covers a value used through its home.  What the engine
\* does with a value handed to it through another EvalState, or after its
\* own was freed, is undefined: any outcome is allowed for it, as with F.
Foreign(slot, e) == e \notin slot.home
\* Evaluation into the null handle of a failed allocation cannot succeed.
EvalOutcomes(oa) == IF oa = "err" THEN {"err"} ELSE Outcomes
\* The values a slot can be forced to: a forced slot keeps its value.
ForcedIn(slot, V) == IF slot.st = "thunk" THEN V ELSE {slot}
ForcedTo(slot) == ForcedIn(slot, ForcedVals)
\* The Values that refer to a slot: "v", the one eval_from_string
\* returned, and "v2", its clone.
Handles(slot) == IF slot.clone = "none" THEN {"v"} ELSE {"v", "v2"}
\* What held of the operand when the operation began: of its slot, and the
\* Value h through which the operation was handed the slot.
PreVia(slot, h) == [st |-> slot.st, forces |-> slot.forces, seen |-> slot.seen,
                    clone |-> slot.clone, home |-> slot.home, h |-> h]
Pre(slot) == PreVia(slot, "v")

\* raw::nix_get_type: the kind tag of the slot, NIX_TYPE_NULL on failure.
nix_get_type(m, v, o) ==
    [m |-> Boundary(m, "nix_get_type", o),
     ret |-> IF o = "err" THEN "NIX_TYPE_NULL" ELSE m.slots[v].tag]

\* raw::nix_value_force: a thunk is overwritten in place by its value fv.
nix_value_force(m, v, o, fv) ==
    LET b == Boundary(m, "nix_value_force", o) IN
    IF o = "ok" /\ m.slots[v].st = "thunk"
    THEN [b EXCEPT !.slots[v] = [fv EXCEPT !.clone = m.slots[v].clone,
                                           !.home = m.slots[v].home]]
    ELSE b

\* raw::nix_expr_eval_from_string: the result is written into slot h.
nix_expr_eval_from_string(m, h, o, content) ==
    LET b == Boundary(m, "nix_expr_eval_from_string", o) IN
    IF o = "ok" /\ h \in Slots
    THEN [b EXCEPT !.slots[h] = content]
    ELSE b

\* ValueType::from_raw: the engine's kind tag as a ValueType.
from_raw(tag) ==
    CASE tag = "NIX_TYPE_ATTRS" -> "AttrSet"
      [] tag = "NIX_TYPE_BOOL" -> "Bool"
      [] tag = "NIX_TYPE_EXTERNAL" -> "External"
      [] tag = "NIX_TYPE_FLOAT" -> "Float"
      [] tag = "NIX_TYPE_FUNCTION" -> "Function"
      [] tag = "NIX_TYPE_INT" -> "Int"
      [] tag = "NIX_TYPE_LIST" -> "List"
      [] tag = "NIX_TYPE_NULL" -> "Null"
      [] tag = "NIX_TYPE_PATH" -> "Path"
      [] tag = "NIX_TYPE_STRING" -> "String"
      [] tag = "NIX_TYPE_THUNK" -> "Thunk"
      [] OTHER -> "Unknown"

\* CString::new: fails on an interior NUL byte.
CString_new(bytes) ==
    IF \E i \in 1..Len(bytes) : bytes[i] = 0 THEN "Err" ELSE "Ok"

\* CStr::from_ptr: the bytes up to the terminating NUL.  The engine keeps a
\* string as a C string, so the bytes it holds have no NUL among them.
RECURSIVE CStr_from_ptr(_)
CStr_from_ptr(bytes) ==
    IF bytes = <<>> \/ bytes[1] = 0 THEN <<>>
    ELSE <<bytes[1]>> \o CStr_from_ptr(Tail(bytes))

\* A UTF-8 continuation byte at position i of bytes.
Cont(bytes, i) == Len(bytes) >= i /\ bytes[i] >= 128 /\ bytes[i] <= 191

\* The length of the well-formed UTF-8 sequence that begins bytes (0 when
\* there is none): the ranges core::str::from_utf8 accepts, which leave out
\* overlong forms, surrogates and code points above U+10FFFF.
Utf8Width(bytes) ==
    LET b == bytes[1]
        second(lo, hi) == Len(bytes) >= 2 /\ bytes[2] >= lo /\ bytes[2] <= hi
    IN  IF b < 128 THEN 1
        ELSE IF b >= 194 /\ b <= 223
        THEN IF Cont(bytes, 2) THEN 2 ELSE 0
        ELSE IF b >= 224 /\ b <= 239
        THEN IF /\ CASE b = 224 -> second(160, 191)
                     [] b = 237 -> second(128, 159)
                     [] OTHER -> second(128, 191)
                /\ Cont(bytes, 3)
             THEN 3 ELSE 0
        ELSE IF b >= 240 /\ b <= 244
        THEN IF /\ CASE b = 240 -> second(144, 191)
                     [] b = 244 -> second(128, 143)
                     [] OTHER -> second(128, 191)
                /\ Cont(bytes, 3) /\ Cont(bytes, 4)
             THEN 4 ELSE 0
        ELSE 0

\* CStr::to_str: UTF-8 validation of the whole byte string.
RECURSIVE Utf8Valid(_)
Utf8Valid(bytes) ==
    IF bytes = <<>> THEN TRUE
    ELSE /\ Utf8Width(bytes) > 0
         /\ Utf8Valid(SubSeq(bytes, Utf8Width(bytes) + 1, Len(bytes)))

----------------------------------------------------------------------------
(* EvalState operations; each returns [m, status, val]                     *)

\* fn new_value_uninitialized: s is the slot the engine hands out.
new_value_uninitialized(m, oa, s) ==
    [m |-> Boundary(m, "nix_alloc_value", oa),
     ret |-> IF oa = "ok" THEN s ELSE NoSlot]

\* Variant that allocates the slot before converting its arguments.
eval_from_string_allocfirst(m, expr, path, oa, s, oe, content) ==
    LET a == new_value_uninitialized(m, oa, s) IN
    IF CString_new(expr) = "Err"
    THEN [m |-> a.m, status |-> "Err",
          val |-> "eval_from_string: expr contains null byte"]
    ELSE IF CString_new(path) = "Err"
    THEN [m |-> a.m, status |-> "Err",
          val |-> "eval_from_string: path contains null byte"]
    ELSE LET c == Checked(nix_expr_eval_from_string(a.m, a.ret, oe, content))
         IN  IF c.status = "Err"
             THEN [m |-> c.m, status |-> "Err", val |-> "engine error"]
             ELSE [m |-> c.m, status |-> "Ok", val |-> a.ret]

\* Variant that forces the value before returning it.
eval_from_string_eager(m, expr, path, oa, s, oe, content) ==
    IF CString_new(expr) = "Err"
    THEN [m |-> m, status |-> "Err",
          val |-> "eval_from_string: expr contains null byte"]
    ELSE IF CString_new(path) = "Err"
    THEN [m |-> m, status |-> "Err",
          val |-> "eval_from_string: path contains null byte"]
    ELSE LET a == new_value_uninitialized(m, oa, s)
             c == Checked(nix_expr_eval_from_string(a.m, a.ret, oe, content))
         IN  IF c.status = "Err"
             THEN [m |-> c.m, status |-> "Err", val |-> "engine error"]
             ELSE LET f == Checked(nix_value_force(
                               c.m, a.ret, "ok",
                               CHOOSE fv \in ForcedTo(c.m.slots[a.ret]) : TRUE))
                  IN  [m |-> f.m, status |-> "Ok", val |-> a.ret]

eval_from_string(m, expr, path, oa, s, oe, content) ==
    IF CString_new(expr) = "Err"
    THEN [m |-> m, status |-> "Err",
          val |-> "eval_from_string: expr contains null byte"]
    ELSE IF CString_new(path) = "Err"
    THEN [m |-> m, status |-> "Err",
          val |-> "eval_from_string: path contains null byte"]
    ELSE LET a == new_value_uninitialized(m, oa, s)
             c == Checked(nix_expr_eval_from_string(a.m, a.ret, oe, content))
         IN  IF c.status = "Err"
             THEN [m |-> c.m, status |-> "Err", val |-> "engine error"]
             ELSE [m |-> c.m, status |-> "Ok", val |-> a.ret]

\* Variant that refuses a value that is no thunk.
force_strict(m, v, o, fv) ==
    IF m.slots[v].st # "thunk"
    THEN [m |-> m, status |-> "Err", val |-> "not a thunk"]
    ELSE LET c == Checked(nix_value_force(m, v, o, fv)) IN
         [m |-> c.m, status |-> c.status,
          val |-> IF c.status = "Err" THEN "engine error" ELSE "unit"]

\* Variant that checks the channel before the call instead of after it.
force_checkfirst(m, v, o, fv) ==
    LET c == Checked(m) IN
    IF c.status = "Err"
    THEN [m |-> c.m, status |-> "Err", val |-> "engine error"]
    ELSE [m |-> nix_value_force(c.m, v, o, fv), status |-> "Ok",
          val |-> "unit"]

force(m, v, o, fv) ==
    LET c == Checked(nix_value_force(m, v, o, fv)) IN
    [m |-> c.m, status |-> c.status,
     val |-> IF c.status = "Err" THEN "engine error" ELSE "unit"]

\* value_is_thunk: check_err().unwrap() panics on a reported failure.
value_is_thunk(m, v, o) ==
    LET g == nix_get_type(m, v, o)
        c == Checked(g.m)
    IN  [m |-> c.m,
         status |-> IF c.status = "Err" THEN "Panic" ELSE "Ok",
         val |-> g.ret = "NIX_TYPE_THUNK"]

\* Variant that forces whether or not the value is a thunk.
value_type_reforce(m, v, o1, o2, fv, o3) ==
    LET t == value_is_thunk(m, v, o1) IN
    IF t.status = "Panic"
    THEN [m |-> t.m, status |-> "Panic", val |-> "engine error"]
    ELSE LET f == force(t.m, v, o2, fv) IN
         IF f.status = "Err"
         THEN [m |-> f.m, status |-> "Err", val |-> f.val]
         ELSE LET g == nix_get_type(f.m, v, o3) IN
              [m |-> g.m, status |-> "Ok", val |-> from_raw(g.ret)]

\* Variant that queries the kind without forcing.
value_type_noforce(m, v, o1, o2, fv, o3) ==
    LET t == value_is_thunk(m, v, o1) IN
    IF t.status = "Panic"
    THEN [m |-> t.m, status |-> "Panic", val |-> "engine error"]
    ELSE LET g == nix_get_type(t.m, v, o3) IN
         [m |-> g.m, status |-> "Ok", val |-> from_raw(g.ret)]

value_type(m, v, o1, o2, fv, o3) ==
    LET t == value_is_thunk(m, v, o1) IN
    IF t.status = "Panic"
    THEN [m |-> t.m, status |-> "Panic", val |-> "engine error"]
    ELSE LET f == IF t.val THEN force(t.m, v, o2, fv)
                  ELSE [m |-> t.m, status |-> "Ok", val |-> "unit"]
         IN  IF f.status = "Err"
             THEN [m |-> f.m, status |-> "Err", val |-> f.val]
             ELSE LET g == nix_get_type(f.m, v, o3) IN
                  [m |-> g.m, status |-> "Ok", val |-> from_raw(g.ret)]

\* Variant that converts without validating.
get_string_unchecked(m, v, o) ==
    LET c == Checked(Boundary(m, "nix_get_string", o)) IN
    IF c.status = "Err"
    THEN [m |-> c.m, status |-> "Err", val |-> "engine error"]
    ELSE [m |-> c.m, status |-> "Ok", val |-> CStr_from_ptr(m.slots[v].str)]

get_string(m, v, o) ==
    LET c == Checked(Boundary(m, "nix_get_string", o))
        cstring == CStr_from_ptr(m.slots[v].str)
    IN  IF c.status = "Err"
        THEN [m |-> c.m, status |-> "Err", val |-> "engine error"]
        ELSE IF ~Utf8Valid(cstring)
        THEN [m |-> c.m, status |-> "Err",
              val |-> "Nix string is not valid UTF-8"]
        ELSE [m |-> c.m, status |-> "Ok", val |-> cstring]

\* Variant that asks for the string whatever the kind.
require_string_anykind(m, v, o1, o2, fv, o3, o4) ==
    LET t == value_type(m, v, o1, o2, fv, o3) IN
    IF t.status # "Ok" THEN t
    ELSE get_string(t.m, v, o4)

require_string(m, v, o1, o2, fv, o3, o4) ==
    LET t == value_type(m, v, o1, o2, fv, o3) IN
    IF t.status # "Ok" THEN t
    ELSE IF t.val # "String"
    THEN [m |-> t.m, status |-> "Err",
          val |-> <<"expected a string, but got a", t.val>>]
    ELSE get_string(t.m, v, o4)

\* The thread holds the EvalState e and may operate on it.
Holds(t, e) == pc[t] = "idle" /\ e \in Live(t)

\* Bookkeeping of forces and seen for slot v after operation o gave r.  It
\* is kept for an engine that honours its contract (~F).
Noted(sl, F, o, v, h, r) ==
    IF F \/ r.status # "Ok" \/ o = "eval_from_string" \/ h # "v" THEN sl
    ELSE IF o = "force"
    THEN [sl EXCEPT ![v].forces = IF @ < 2 THEN @ + 1 ELSE @]
    ELSE IF o = "value_type" /\ sl[v].forces = 1
    THEN [sl EXCEPT ![v].seen = r.val]
    ELSE sl

\* r is the error that check_err reported.
EngineError(r) ==
    /\ r.status = "Err"
    /\ r.m.log # <<>>
    /\ r.m.log[Len(r.m.log)] = Ev("check_err", "Err")

\* The operation o on operand v ends with r: r's effects, its result, and
\* the unwinding of the thread when it panicked.  That an engine error has
\* been returned on the EvalState is kept where calls fail at will (F).
Finish(t, e, F, o, v, p, r) ==
    /\ ctx' = [ctx EXCEPT ![e] = r.m.ctx]
    /\ log' = r.m.log
    /\ result' = ResOn(e, ResOf(t, o, r.status, r.val, v, p))
    /\ IF r.status = "Panic"
       THEN Unwind(t, r.m.slots)
       ELSE /\ slots' = Noted(r.m.slots, F, o, v, p.h, r)
            /\ es' = [es EXCEPT ![e].failed = @ \/ (F /\ EngineError(r))]
            /\ UNCHANGED <<pc, op, frames>>
    /\ UNCHANGED <<INIT, initCtx, effects, registered>>

\* The outcomes the environment chooses among for a call: those of S when
\* the operation gets to make the call; there is nothing to choose for a
\* call that is not made.
IfMade(made, S) == IF made THEN S ELSE {CHOOSE x \in S : TRUE}

\* The slot the engine hands out next: the lowest free one.
NextSlot(sl) ==
    {s \in Slots : /\ sl[s].st = "free"
                   /\ \A s2 \in Slots : sl[s2].st = "free" => s <= s2}

\* eval_from_string on an expression of X, whose value is in V, and a label
\* of P.  It gets to
\* new_value_uninitialized when both arguments convert.  The heap of the
\* model has to have room for an evaluation that makes a value; one that
\* fails, in the allocation or in the engine, leaves the heap as it is and
\* needs none.
eval_from_string_given(t, F, X, P, V) ==
    \E e \in EvalStates :
      /\ Holds(t, e)
      /\ \E expr \in X, path \in P :
           LET M == Mach(slots, ctx[e], <<>>)
               cstr == CString_new(expr) = "Ok" /\ CString_new(path) = "Ok"
           IN  \E oa \in IfMade(cstr, Outcomes) :
               \E oe \in IfMade(cstr, EvalOutcomes(oa)) :
               \E s \in IF cstr /\ oe = "ok" THEN NextSlot(slots)
                                             ELSE {NoSlot} :
               \E content \in IfMade(cstr /\ oe = "ok", EvaluatedIn(e, V)) :
                 Finish(t, e, F, "eval_from_string", <<expr, path>>,
                        Pre(FreeSlot),
                        eval_from_string(M, expr, path, oa, s, oe, content))

eval_from_string_call(t, F, V) ==
    eval_from_string_given(t, F, Exprs, Paths, V)

\* The texts of S that hold no NUL byte.
NulFree(S) == {b \in S : CString_new(b) = "Ok"}

\* The operand of an operation on a value is any Value in scope: the code
\* takes it by reference and does not ask which EvalState evaluated it.
\* V holds the values the thunks in the heap can be forced to.
force_call(t, F, V) ==
    \E e \in EvalStates, v \in Slots :
    \E h \in Handles(slots[v]) :
      /\ Holds(t, e)
      /\ slots[v].st # "free"
      /\ \E o \in ForceOutcomes(slots[v], F \/ Foreign(slots[v], e)) :
         \E fv \in IfMade(o = "ok", ForcedIn(slots[v], V)) :
           Finish(t, e, F \/ Foreign(slots[v], e), "force", v,
                  PreVia(slots[v], h),
                  force(Mach(slots, ctx[e], <<>>), v, o, fv))

value_is_thunk_call(t, F) ==
    \E e \in EvalStates, v \in Slots :
    \E h \in Handles(slots[v]) :
      /\ Holds(t, e)
      /\ slots[v].st # "free"
      /\ \E o \in QueryOutcomes(F \/ Foreign(slots[v], e)) :
           Finish(t, e, F \/ Foreign(slots[v], e), "value_is_thunk", v,
                  PreVia(slots[v], h),
                  value_is_thunk(Mach(slots, ctx[e], <<>>), v, o))

\* value_type gets to force when value_is_thunk answered true, and to
\* query the kind when it did not return before.
value_type_call(t, F, V) ==
    \E e \in EvalStates, v \in Slots :
    \E h \in Handles(slots[v]) :
      /\ Holds(t, e)
      /\ slots[v].st # "free"
      /\ LET M == Mach(slots, ctx[e], <<>>)
             G == F \/ Foreign(slots[v], e)
         IN
         \E o1 \in QueryOutcomes(G) :
         \E o2 \in IfMade(value_is_thunk(M, v, o1).status = "Ok"
                             /\ value_is_thunk(M, v, o1).val,
                           ForceOutcomes(slots[v], G)) :
         \E fv \in IfMade(o2 = "ok", ForcedIn(slots[v], V)) :
         \E o3 \in IfMade(value_type(M, v, o1, o2, fv, "ok").status = "Ok",
                           QueryOutcomes(G)) :
           Finish(t, e, G, "value_type", v, PreVia(slots[v], h),
                  value_type(M, v, o1, o2, fv, o3))

\* require_string gets to nix_get_string when value_type returned String.
require_string_call(t, F, V) ==
    \E e \in EvalStates, v \in Slots :
    \E h \in Handles(slots[v]) :
      /\ Holds(t, e)
      /\ slots[v].st # "free"
      /\ LET M == Mach(slots, ctx[e], <<>>)
             G == F \/ Foreign(slots[v], e)
         IN
         \E o1 \in QueryOutcomes(G) :
         \E o2 \in IfMade(value_is_thunk(M, v, o1).status = "Ok"
                             /\ value_is_thunk(M, v, o1).val,
                           ForceOutcomes(slots[v], G)) :
         \E fv \in IfMade(o2 = "ok", ForcedIn(slots[v], V)) :
         \E o3 \in IfMade(value_type(M, v, o1, o2, fv, "ok").status = "Ok",
                           QueryOutcomes(G)) :
         \E o4 \in IfMade(/\ value_type(M, v, o1, o2, fv, o3).status = "Ok"
                           /\ value_type(M, v, o1, o2, fv, o3).val = "String",
                           QueryOutcomes(G)) :
           Finish(t, e, G, "require_string", v, PreVia(slots[v], h),
                  require_string(M, v, o1, o2, fv, o3, o4))

\* Value::clone: one more Value for the same slot; the slot is shared, not
\* copied.
Value_clone(slot) ==
    [slot EXCEPT !.clone = IF slot.st = "thunk" THEN "early" ELSE "late"]

\* The model keeps one clone at a time.
Value_clone_call(t) ==
    /\ pc[t] = "idle"
    /\ \A s \in Slots : slots[s].clone = "none"
    /\ \E v \in Slots :
         /\ slots[v].st # "free"
         /\ slots' = [slots EXCEPT ![v] = Value_clone(@)]
         /\ result' = ResOf(t, "clone", "Ok", "v2", v, Pre(slots[v]))
    /\ log' = <<>>
    /\ UNCHANGED <<INIT, initCtx, effects, pc, op, registered, frames, es, ctx>>

\* pub fn gc_now(): nix_gc_now().
gc_now(t) ==
    /\ pc[t] = "idle"
    /\ log' = <<Ev("nix_gc_now", "ok")>>
    /\ result' = Res(t, "gc_now", "Ok", "unit")
    /\ UNCHANGED <<INIT, initCtx, effects, pc, op, registered, frames, es,
                   ctx, slots>>

----------------------------------------------------------------------------
Init ==
    /\ INIT = "uninit"
    /\ initCtx = "none"
    /\ effects = [allow |-> 0, libinit |-> 0]
    /\ pc = [t \in Threads |-> "idle"]
    /\ op = [t \in Threads |-> "none"]
    /\ registered = [t \in Threads |-> FALSE]
    /\ frames = [t \in Threads |-> <<>>]
    /\ es = [e \in EvalStates |->
               [st |-> "none", owner |-> NoThread, frees |-> 0,
                failed |-> FALSE]]
    /\ ctx = [e \in EvalStates |-> "none"]
    /\ slots = [s \in Slots |-> FreeSlot]
    /\ log = <<>>
    /\ result = NoResult

\* Initialization and the making of EvalStates; O is the set of operations
\* through which the thread may reach init().
MakeOps(t, O) ==
        \/ \E o \in O : CallInit(t, o)
        \/ INIT_enter(t)
        \/ INIT_libexpr_init(t)
        \/ INIT_check(t)
        \/ init_return(t)
        \/ EvalState_new_call(t)

\* The whole life cycle of the EvalState.
LifeOps(t, O) ==
        \/ MakeOps(t, O)
        \/ EvalState_drop(t)

\* Registration with the collector.
RegOps(t) ==
        \/ gc_registering_current_thread_enter(t)
        \/ gc_registering_current_thread_exit(t)
        \/ closure_panic(t)
        \/ gc_register_my_thread_call(t)
        \/ gc_now(t)

\* The operations on values, on an engine that honours its contract (~F) or
\* with fault injection (F), the expressions having their values in V.
ValueOps(t, F, V) ==
        \/ eval_from_string_call(t, F, V)
        \/ force_call(t, F, V)
        \/ value_is_thunk_call(t, F)
        \/ value_type_call(t, F, V)
        \/ require_string_call(t, F, V)

\* The values of 1; of 1, true and the strings.
Ints == ValuesOf({"NIX_TYPE_INT"})
Plain == ValuesOf({"NIX_TYPE_INT", "NIX_TYPE_BOOL", "NIX_TYPE_STRING"})

\* The thread that acts in the specifications of one thread.
Main == CHOOSE t \in Threads : \A u \in Threads : t <= u

\* The state in which Main, on a process whose initialization succeeded,
\* has got an EvalState from EvalState::new and nothing else has happened.
InitHeld ==
    /\ INIT = "ok"
    /\ initCtx = "none"
    /\ effects = [allow |-> 1, libinit |-> 1]
    /\ pc = [t \in Threads |-> "idle"]
    /\ op = [t \in Threads |-> "none"]
    /\ registered = [t \in Threads |-> FALSE]
    /\ frames = [t \in Threads |-> <<>>]
    /\ \E e \in EvalStates :
         /\ \A e2 \in EvalStates : e <= e2
         /\ es = [x \in EvalStates |->
                    IF x = e
                    THEN [st |-> "alive", owner |-> Main, frees |-> 0,
                          failed |-> FALSE]
                    ELSE [st |-> "none", owner |-> NoThread, frees |-> 0,
                          failed |-> FALSE]]
         /\ result = ResOn(e, Res(Main, "new", "Ok", "EvalState"))
    /\ ctx = [e \in EvalStates |-> "none"]
    /\ slots = [s \in Slots |-> FreeSlot]
    /\ log = <<Ev("nix_state_create", "ok")>>

\* Spec: any number of threads in initialization and registration.
Next == \E t \in Threads : \/ \E o \in {"init", "gcreg"} : CallInit(t, o)
                            \/ INIT_enter(t)
                            \/ INIT_libexpr_init(t)
                            \/ INIT_check(t)
                            \/ init_return(t)
                            \/ RegOps(t)
Spec == Init /\ [][Next]_vars

\* SpecLife: any number of threads making and dropping EvalStates, several
\* at a time.
NextLife == \E t \in Threads : LifeOps(t, {"init", "new"})
SpecLife == Init /\ [][NextLife]_vars

\* SpecMake: any number of threads in initialization, the making of
\* EvalStates and the scoped registration.
NextMake ==
    \E t \in Threads : \/ MakeOps(t, {"init", "new", "gcreg"})
                        \/ gc_registering_current_thread_enter(t)
                        \/ gc_registering_current_thread_exit(t)
SpecMake == Init /\ [][NextMake]_vars

\* SpecFree: one thread making and dropping EvalStates, several at a time,
\* and evaluating; every call handed the channel may fail.
NextFree ==
    \/ LifeOps(Main, {"init", "new"})
    \/ eval_from_string_given(Main, TRUE, NulFree(Exprs), NulFree(Paths),
                              Plain)
SpecFree == Init /\ [][NextFree]_vars

\* SpecEval: one thread in the life cycle, the scoped registration,
\* evaluation and value_type, the engine honouring its contract.
NextEval ==
    \/ LifeOps(Main, {"init", "new", "gcreg"})
    \/ gc_registering_current_thread_enter(Main)
    \/ gc_registering_current_thread_exit(Main)
    \/ eval_from_string_given(Main, FALSE, NulFree(Exprs), NulFree(Paths),
                              Plain)
    \/ value_type_call(Main, FALSE, Plain)
SpecEval == Init /\ [][NextEval]_vars

\* SpecFault: one thread operating the EvalState it has got, every call
\* handed the channel may fail.
NextFault == ValueOps(Main, TRUE, ForcedVals)
SpecFault == InitHeld /\ [][NextFault]_vars

\* SpecValue: one thread operating the EvalState it has got and its
\* Values, integers, booleans and strings, the engine honouring its
\* contract.
NextValue == ValueOps(Main, FALSE, Plain)
SpecValue == InitHeld /\ [][NextValue]_vars

\* SpecKind: one thread evaluating texts without a NUL byte on the
\* EvalState it has got, to values of every kind, and asking for their
\* string, the engine honouring its contract.
NextKind ==
    \/ eval_from_string_given(Main, FALSE, NulFree(Exprs), NulFree(Paths),
                              ForcedVals)
    \/ require_string_call(Main, FALSE, ForcedVals)
SpecKind == InitHeld /\ [][NextKind]_vars

\* SpecClone: one thread evaluating texts without a NUL byte on the
\* EvalState it has got, to integers, cloning, forcing and asking the kind,
\* the engine honouring its contract.
NextClone ==
    \/ eval_from_string_given(Main, FALSE, NulFree(Exprs), NulFree(Paths),
                              Ints)
    \/ Value_clone_call(Main)
    \/ force_call(Main, FALSE, Ints)
    \/ value_type_call(Main, FALSE, Ints)
SpecClone == InitHeld /\ [][NextClone]_vars

----------------------------------------------------------------------------
(* Properties                                                              *)

\* The last operation made the boundary call name.
Has(name) == \E i \in 1..Len(log) : log[i].call = name
\* In the last operation every call a came before every call b.
Before(a, b) ==
    \A i, j \in 1..Len(log) :
        log[i].call = a /\ log[j].call = b => i < j

\* C1: however many threads call init() concurrently or later, the
\* initialization routine (GC_allow_register_threads, nix_libexpr_init and
\* the check) runs exactly once, and every init() returns the one outcome:
\* the resolved cell never changes and each return reproduces it.
C1_State ==
    /\ effects.allow <= 1 /\ effects.libinit <= 1
    /\ OnceResolved(INIT) => effects.allow = 1 /\ effects.libinit = 1
    /\ result.op = "init" =>
          /\ OnceResolved(INIT)
          /\ result.status = (IF INIT = "ok" THEN "Ok" ELSE "Err")
C1_InitOnce ==
    [](C1_State) /\ [][OnceResolved(INIT) => INIT' = INIT]_vars
\* One call has returned the failure while another thread's concurrent
\* call is still to return.
C1_Witness ==
    /\ result.op = "init" /\ INIT = "err"
    /\ effects.allow = 1 /\ effects.libinit = 1
    /\ \E t \in Threads \ {result.t} : pc[t] = "deref" /\ op[t] = "init"

\* C2: once initialization has failed, every call to init(),
\* EvalState::new and gc_registering_current_thread returns the cached
\* failure, and makes no boundary call: the routine is not run again, no
\* EvalState is created, no thread is registered and no closure runs.
C2_FailFast ==
    INIT = "err" =>
        /\ effects.allow = 1 /\ effects.libinit = 1
        /\ \A e \in EvalStates : es[e].st # "alive"
        /\ \A t \in Threads : frames[t] = <<>>
        /\ result.op \in {"init", "new", "gcreg", "gcreg_enter"} =>
              /\ result.status = "Err"
              /\ result.val = "nix_libstore_init error"
              /\ log = <<>>
        /\ result.op = "gcreg" => registered[result.t] = result.pre
C2_Witness ==
    /\ INIT = "err"
    /\ result.op = "gcreg" /\ result.status = "Err"
    /\ \E t \in Threads \ {result.t} : pc[t] = "deref" /\ op[t] = "new"

\* C3: a call of gc_registering_current_thread nested in another on the
\* same thread neither registers nor unregisters the thread, and the thread
\* stays registered as long as a call is open on it.
C3_Reentrant ==
    /\ \A t \in Threads : frames[t] # <<>> => registered[t]
    /\ result.op = "gcreg_enter" /\ result.arg >= 1 =>
          /\ ~Has("GC_register_my_thread")
          /\ ~Has("GC_unregister_my_thread")
    /\ result.op = "gcreg" /\ result.status = "Ok" /\ result.arg >= 1 =>
          /\ ~Has("GC_register_my_thread")
          /\ ~Has("GC_unregister_my_thread")
          /\ registered[result.t]
\* The inner call has returned inside an outer call that registered the
\* thread.
C3_Witness ==
    /\ result.op = "gcreg" /\ result.status = "Ok" /\ result.arg = 1
    /\ Len(frames[result.t]) = 1
    /\ frames[result.t][1].own
    /\ registered[result.t]

\* C4: on a thread not registered on entry the call makes, in this order,
\* GC_get_stack_base, GC_register_my_thread, f, GC_unregister_my_thread; the
\* thread is registered while f runs; the call unregisters exactly when it
\* registered, so on return the registration is what it was on entry, and
\* f's result is what the call returns.
C4_Scoped ==
    /\ \A t \in Threads : frames[t] # <<>> => registered[t]
    /\ result.op = "gcreg_enter" =>
          /\ Has("f")
          /\ ~Has("GC_unregister_my_thread")
          /\ Has("GC_register_my_thread") <=> (result.pre = FALSE)
          /\ Has("GC_get_stack_base") <=> (result.pre = FALSE)
          /\ Before("GC_get_stack_base", "GC_register_my_thread")
          /\ Before("GC_register_my_thread", "f")
          /\ frames[result.t][Len(frames[result.t])].own = ~result.pre
    /\ result.op = "gcreg" /\ result.status = "Ok" =>
          /\ Has("GC_unregister_my_thread") <=> (result.pre = FALSE)
          /\ Before("f", "GC_unregister_my_thread")
          /\ registered[result.t] = result.pre
          /\ log[1] = Ev("f", result.val)
\* A call that found the thread unregistered has returned.
C4_Witness ==
    /\ result.op = "gcreg" /\ result.status = "Ok"
    /\ result.pre = FALSE
    /\ ~registered[result.t]
    /\ log = <<Ev("f", result.val), Ev("GC_unregister_my_thread", "ok")>>

\* C5: a thread that gc_registering_current_thread found unregistered is
\* unregistered again once the call has ended, whether f returned or
\* panicked.
C5_UnregisteredOnEveryExit ==
    result.op = "gcreg" /\ result.status \in {"Ok", "Panic"} =>
        (result.pre = FALSE => ~registered[result.t])

\* C6: when GC_get_stack_base fails in gc_registering_current_thread, the
\* call returns an error to its caller, and neither registers the thread,
\* nor invokes f, nor unregisters.
C6_StackBaseFailureReported ==
    result.op = "gcreg" /\ Has("GC_get_stack_base")
        /\ Ev("GC_get_stack_base", "err") \in {log[i] : i \in 1..Len(log)} =>
        /\ result.status = "Err"
        /\ ~Has("GC_register_my_thread")
        /\ ~Has("f")
        /\ ~Has("GC_unregister_my_thread")

EvalStateOps == {"new", "eval_from_string", "force", "value_is_thunk",
                 "value_type", "require_string"}

\* C7: in every EvalState operation each boundary call handed the error
\* channel is followed by check_err before the channel is handed to the
\* next call and before the operation returns.
C7_CheckedAfterEveryCall ==
    result.op \in EvalStateOps =>
        \A i \in 1..Len(log) :
            log[i].call \in ChannelCalls =>
                i < Len(log) /\ log[i + 1].call = "check_err"

\* C8: whenever a boundary call of eval_from_string, force, value_type or
\* require_string reports a failure through the channel, the operation
\* returns an error value: it neither returns Ok nor panics.
C8_NoErrorSwallowed ==
    result.op \in {"eval_from_string", "force", "value_type",
                   "require_string"} =>
        ((\E i \in 1..Len(log) :
             log[i].call \in ChannelCalls /\ log[i].out = "err")
         => result.status = "Err")

\* The last operation was handed a value through the EvalState that
\* evaluated it, as its callers are required to.
OwnValue == result.es \in result.pre.home

\* C9: after force has succeeded on a value, every further force on it
\* succeeds, and value_type after the second force returns the kind it
\* returned after the first.
C9_ForceIdempotent ==
    /\ result.op = "force" /\ OwnValue /\ result.pre.forces >= 1 =>
          result.status = "Ok"
    /\ result.op = "value_type" /\ OwnValue /\ result.pre.forces >= 1 =>
          /\ result.status = "Ok"
          /\ result.pre.seen # "none" => result.val = result.pre.seen
\* value_type after the first force, a second force, value_type again.
C9_Witness ==
    /\ result.op = "value_type" /\ result.status = "Ok"
    /\ OwnValue
    /\ result.pre.forces = 2
    /\ result.pre.seen = "String"
    /\ result.val = "String"

\* C10: value_type never returns the thunk kind: a thunk is forced first and
\* its kind is queried only after the force succeeded; a forced value is
\* not forced again.
C10_NeverThunk ==
    result.op = "value_type" =>
        /\ result.status = "Ok" => result.val # from_raw("NIX_TYPE_THUNK")
        /\ result.pre.st = "thunk" /\ result.status = "Ok" =>
              /\ Ev("nix_value_force", "ok") \in {log[i] : i \in 1..Len(log)}
              /\ log[Len(log)].call = "nix_get_type"
              /\ \A i \in 1..Len(log) :
                    log[i].call = "nix_value_force" => i < Len(log)
        /\ result.pre.st = "thunk" =>
              \A j \in 3..Len(log) :
                  log[j].call = "nix_get_type" =>
                      \E i \in 1..(j - 1) : log[i] = Ev("nix_value_force", "ok")
        /\ result.pre.st = "forced" => ~Has("nix_value_force")
\* value_type on a thunk has forced it and returned its kind.
C10_Witness ==
    /\ result.op = "value_type" /\ result.status = "Ok"
    /\ result.pre.st = "thunk"
    /\ result.val = "Int"
    /\ Has("nix_value_force")

\* The name of each kind that is not String, as the message prints it.
KindNames == [NIX_TYPE_INT |-> "Int", NIX_TYPE_BOOL |-> "Bool",
              NIX_TYPE_PATH |-> "Path", NIX_TYPE_ATTRS |-> "AttrSet",
              NIX_TYPE_LIST |-> "List"]

\* C11: when the value's kind, after the implicit forcing, is not String,
\* require_string fails with "expected a string, but got a {Kind}" naming
\* that kind (Int, Bool, Path, AttrSet or List), and nix_get_string is not
\* called.
C11_WrongKind ==
    (/\ result.op = "require_string" /\ result.status # "Panic"
     /\ OwnValue
     /\ slots[result.arg].st = "forced"
     /\ slots[result.arg].tag # "NIX_TYPE_STRING")
    => /\ result.status = "Err"
       /\ result.val = <<"expected a string, but got a",
                         KindNames[slots[result.arg].tag]>>
       /\ ~Has("nix_get_string")
\* require_string on a thunk that evaluates to a path.
C11_Witness ==
    /\ result.op = "require_string" /\ result.status = "Err"
    /\ OwnValue
    /\ result.pre.st = "thunk"
    /\ slots[result.arg].tag = "NIX_TYPE_PATH"
    /\ result.val = <<"expected a string, but got a", "Path">>
    /\ Has("nix_value_force")

\* C12: on a value of kind String require_string returns exactly the bytes
\* the engine holds when they are valid UTF-8, and fails with "not valid
\* UTF-8" when they are not; a success never carries other content.
C12_ExactString ==
    (/\ result.op = "require_string" /\ result.status # "Panic"
     /\ OwnValue
     /\ slots[result.arg].st = "forced"
     /\ slots[result.arg].tag = "NIX_TYPE_STRING")
    => /\ Has("nix_get_string")
       /\ IF Utf8Valid(slots[result.arg].str)
          THEN result.status = "Ok" /\ result.val = slots[result.arg].str
          ELSE /\ result.status = "Err"
               /\ result.val = "Nix string is not valid UTF-8"
\* require_string on a thunk that evaluates to the string "hi".
C12_Witness ==
    /\ result.op = "require_string" /\ result.status = "Ok"
    /\ OwnValue
    /\ result.pre.st = "thunk"
    /\ slots[result.arg].str = <<104, 105>>
    /\ result.val = <<104, 105>>

\* C13: the handle a successful EvalState::new obtained is freed by
\* nix_state_free exactly once, when that EvalState is dropped or unwound;
\* operations run only on an EvalState that has not been freed; a failed
\* construction returns an error and does not call nix_state_free.
C13_FreedOnce ==
    /\ \A e \in EvalStates :
          /\ es[e].st # "freed" => es[e].frees = 0
          /\ es[e].st = "freed" => es[e].frees = 1
    /\ Has("nix_state_free") => result.op = "drop"
    /\ result.op = "drop" =>
          /\ es[result.es].st = "freed"
          /\ log = <<Ev("nix_state_free", "ok")>>
    /\ result.op = "new" /\ result.status = "Ok" =>
          es[result.es].st = "alive" /\ ~Has("nix_state_free")
    /\ result.op = "new" /\ result.status = "Err" => ~Has("nix_state_free")
    /\ result.op \in EvalStateOps \ {"new"} =>
          IF result.status = "Panic" THEN es[result.es].st = "freed"
          ELSE es[result.es].st = "alive"
\* An EvalState has been freed, and nix_state_create then returned null
\* for the next one.
C13_Witness ==
    /\ result.op = "new" /\ result.status = "Err"
    /\ result.val = "nix_state_create returned a null pointer"
    /\ \E e \in EvalStates : es[e].st = "freed" /\ es[e].frees = 1

Reported ==
    /\ result.status = "Err"
    /\ log # <<>>
    /\ log[Len(log)] = Ev("check_err", "Err")
\* None of the boundary calls of the last operation failed.
AllSucceeded ==
    \A i \in 1..Len(log) : log[i].call \in ChannelCalls => log[i].out = "ok"
\* The last operation was called on an EvalState on which an operation has
\* returned an engine error, and none of its own boundary calls failed.
AfterError ==
    /\ result.op \in EvalStateOps \ {"new"}
    /\ es[result.es].failed
    /\ AllSucceeded

\* C15 as stated: on an EvalState on which an operation has returned an
\* engine error, every later operation that makes boundary calls, all of
\* which succeed, returns Ok.
C15_AlwaysOk ==
    (/\ AfterError
     /\ \E i \in 1..Len(log) : log[i].call \in ChannelCalls)
    => result.status = "Ok"

\* C15, amended: an operation that returns an engine error leaves the
\* channel empty and the EvalState usable, and one of its own boundary
\* calls failed.  On an EvalState on which an operation has returned an
\* engine error, an operation whose own boundary calls all succeed never
\* reports an engine error and does not panic; it returns Ok, except that
\* eval_from_string given a text with a NUL byte returns its conversion
\* error, and require_string returns its wrong-kind error on a value that
\* is not a string and its encoding error on a string that is not UTF-8.
C15_UsableAfterError ==
    /\ result.op \in EvalStateOps \ {"new"} /\ Reported =>
          /\ ctx[result.es] = "none"
          /\ es[result.es].st = "alive" /\ es[result.es].failed
          /\ \E i \in 1..Len(log) :
                log[i].call \in ChannelCalls /\ log[i].out = "err"
    /\ AfterError =>
          /\ ~Reported
          /\ result.status \in {"Ok", "Err"}
          /\ result.op \in {"force", "value_is_thunk", "value_type"} =>
                result.status = "Ok"
          /\ result.op = "eval_from_string" =>
                IF \E k \in 1..2 : CString_new(result.arg[k]) = "Err"
                THEN result.status = "Err" /\ log = <<>>
                ELSE result.status = "Ok"
          /\ result.op = "require_string" =>
                IF slots[result.arg].tag # "NIX_TYPE_STRING"
                THEN /\ result.status = "Err"
                     /\ result.val[1] = "expected a string, but got a"
                ELSE IF Utf8Valid(slots[result.arg].str)
                THEN result.status = "Ok"
                ELSE /\ result.status = "Err"
                     /\ result.val = "Nix string is not valid UTF-8"
\* After an engine error on the EvalState, require_string, with all its
\* boundary calls succeeding, has returned its wrong-kind error.
C15_Witness ==
    /\ result.op = "require_string" /\ result.status = "Err"
    /\ AfterError
    /\ Has("nix_get_type")
    /\ slots[result.arg].tag = "NIX_TYPE_BOOL"
    /\ es[result.es].st = "alive"
    /\ ctx[result.es] = "none"

\* The boundary calls that create, force or inspect values.
ValueCalls == {"nix_alloc_value", "nix_expr_eval_from_string",
               "nix_value_force", "nix_get_type", "nix_get_string"}

\* C16: a boundary call that creates, forces or inspects a value is made
\* only by a thread that is registered with the collector.
C16_RegisteredForValues ==
    (\E i \in 1..Len(log) : log[i].call \in ValueCalls)
        => result.t \in Threads /\ registered[result.t]

\* How many times the last operation made the boundary call name.
Count(name) == Cardinality({i \in 1..Len(log) : log[i].call = name})

\* C17: an eval_from_string that gets to the engine allocates one slot,
\* makes one nix_expr_eval_from_string call and no nix_value_force call;
\* the Value it returns is the slot this call allocated, which holds what
\* the engine wrote, and no other slot changes.
C17_State ==
    result.op = "eval_from_string" =>
        /\ ~Has("nix_value_force")
        /\ Count("nix_alloc_value") = Count("nix_expr_eval_from_string")
        /\ Count("nix_alloc_value") <= 1
        /\ result.status = "Ok" =>
              /\ Count("nix_alloc_value") = 1
              /\ log[1].call = "nix_alloc_value"
              /\ result.val \in Slots
C17_Step ==
    (/\ result'.op = "eval_from_string" /\ result'.status = "Ok"
     /\ slots' # slots)
    => /\ slots[result'.val].st = "free"
       /\ slots'[result'.val] \in Evaluated(result'.es)
       /\ \A s \in Slots \ {result'.val} : slots'[s] = slots[s]
C17_EvalDoesNotForce == [](C17_State) /\ [][C17_Step]_vars
\* A second evaluation has returned the second slot, still a thunk.
C17_Witness ==
    /\ result.op = "eval_from_string" /\ result.status = "Ok"
    /\ Count("nix_alloc_value") = 1
    /\ Count("nix_expr_eval_from_string") = 1
    /\ \A s \in Slots : s < result.val => slots[s].st # "free"
    /\ \E s \in Slots : s < result.val
    /\ slots[result.val] \in Evaluated(result.es)
    /\ slots[result.val].st = "thunk"

\* C18: GC_register_my_thread is called only once initialization has
\* succeeded (so after GC_allow_register_threads), and only on a thread
\* that was not registered.
C18_RegisterAfterInit ==
    Has("GC_register_my_thread") =>
        /\ INIT = "ok" /\ effects.allow = 1
        /\ result.op \in {"gcreg_enter", "gc_register_my_thread"}
        /\ result.pre = FALSE

\* The last operation was eval_from_string on an expression or a label
\* that holds a NUL byte.
NulGiven ==
    /\ result.op = "eval_from_string"
    /\ \E k \in 1..2 : \E i \in 1..Len(result.arg[k]) : result.arg[k][i] = 0

\* C19: eval_from_string on an expression or a label holding a NUL byte
\* returns an error without a boundary call: no slot is allocated, the
\* evaluation call is not made, and the channel is left as it was.
C19_State ==
    NulGiven => /\ result.status = "Err"
                /\ result.val \in
                      {"eval_from_string: expr contains null byte",
                       "eval_from_string: path contains null byte"}
                /\ log = <<>>
C19_Step == NulGiven' => slots' = slots /\ ctx' = ctx
C19_NulRejectedFirst == [](C19_State) /\ [][C19_Step]_vars
\* The label held a NUL while the channel still held an unchecked failure
\* and the heap of the model had no slot left to hand out.
C19_Witness ==
    /\ NulGiven
    /\ result.arg[1] = <<49>>
    /\ result.status = "Err"
    /\ ctx[result.es] = "err"
    /\ es[result.es].st = "alive"
    /\ \A s \in Slots : slots[s].st # "free"
====
